---- MODULE Spec2Model ----
(***************************************************************************)
(* SingleLinkedList<Type> of single-linked-list.h as a state machine.      *)
(*                                                                         *)
(* The heap is a partial map from node addresses to Node records; every    *)
(* container is a sentinel (head_, of which only next_node matters) and a  *)
(* size_.  A pointer is 0 (nullptr), a heap address 1..MaxNodes, or -l for *)
(* the address of the sentinel head_ embedded in container l.              *)
(* Asserts are modelled as compiled in (no NDEBUG).                        *)
(***************************************************************************)
EXTENDS Integers, Sequences, FiniteSets, TLC

\* Capacity of the heap: `new Node` throws std::bad_alloc when it is used up.
MaxNodes == 3

\* nullptr
Null == 0
Nodes == 1..MaxNodes
\* The client program declares two SingleLinkedList<int> objects, 1 and 2, and
\* stores the values 1, 2 and 3 in them.
Lists == {1, 2}
Values == {1, 2, 3}
\* The locals of the member functions live in slots of their own: temp_list of
\* FillingListInSeries and tmp of operator=.
TempList == 3
Tmp == 4
Slots == Lists \cup {TempList, Tmp}
Ptrs == {0 - l : l \in Slots} \cup {Null} \cup Nodes
\* What a `new Node` can answer besides an address: it throws.
NoMem == Null
\* What a read through an invalid pointer can do besides yielding a value.
Trap == MaxNodes + 1

VARIABLES
    heap,   \* allocated address -> [value, next_node]
    head,   \* slot -> head_.next_node
    size,   \* slot -> size_
    alive,  \* the containers of Lists that are constructed and not destroyed
    err,    \* a freed or never allocated node was read, written or deleted
    last    \* the last call: what it was, what it returned, how it ended

vars == <<heap, head, size, alive, err, last>>

Sentinel(l) == 0 - l

W == [heap |-> heap, head |-> head, size |-> size, err |-> err]

Res(w, ret, exc) == [w |-> w, ret |-> ret, exc |-> exc]

----------------------------------------------------------------------------
\* Memory

Valid(w, p) == p < 0 \/ p \in DOMAIN w.heap

Free(w) == Nodes \ DOMAIN w.heap

\* p->next_node
NextNode(w, p) ==
    IF p < 0 THEN w.head[0 - p]
    ELSE IF p \in DOMAIN w.heap THEN w.heap[p].next_node
    ELSE Null

\* Marks a use of p->... when p is not a live node
Use(w, p) == [w EXCEPT !.err = @ \/ ~Valid(w, p)]

\* p->next_node = q
SetNext(w, p, q) ==
    IF p < 0 THEN [w EXCEPT !.head[0 - p] = q]
    ELSE IF p \in DOMAIN w.heap THEN [w EXCEPT !.heap[p].next_node = q]
    ELSE [w EXCEPT !.err = TRUE]

\* new Node(val, next) placed at address a
NewNode(w, a, val, next) ==
    [w EXCEPT !.heap = (a :> [value |-> val, next_node |-> next]) @@ w.heap]

\* delete p
Delete(w, p) ==
    IF p = Null THEN w
    ELSE IF p \in DOMAIN w.heap
    THEN [w EXCEPT !.heap = [n \in (DOMAIN w.heap) \ {p} |-> w.heap[n]]]
    ELSE [w EXCEPT !.err = TRUE]

----------------------------------------------------------------------------
\* Iterators

begin(w, l) == w.head[l]

end == Null

before_begin(l) == Sentinel(l)

\* BasicIterator::operator++
IterIncrement(w, it) ==
    IF it = Null THEN Res(w, it, "assert")
    ELSE Res(Use(w, it), NextNode(w, it), "none")

\* BasicIterator::operator*.  The value of a sentinel is Type{}, 0 for int.
IterDeref(w, it) ==
    IF it = Null THEN Res(w, 0, "assert")
    ELSE IF it \in DOMAIN w.heap THEN Res(w, w.heap[it].value, "none")
    ELSE Res(Use(w, it), 0, "none")

----------------------------------------------------------------------------
\* Container members

GetSize(w, l) == w.size[l]

IsEmpty(w, l) == w.size[l] = 0

\* addr is the allocator's answer to `new Node`: a free address or NoMem
PushFront(w, self, value, addr) ==
    IF addr = NoMem THEN Res(w, Null, "throw")
    ELSE LET w1 == NewNode(w, addr, value, w.head[self])
             w2 == [w1 EXCEPT !.head[self] = addr]
             w3 == [w2 EXCEPT !.size[self] = @ + 1]
         IN  Res(w3, Null, "none")

\* InsertAfter whose new node has no successor
InsertAfterDropsTail(w, self, pos, value, addr) ==
    IF pos = Null THEN Res(w, Null, "assert")
    ELSE IF addr = NoMem THEN Res(Use(w, pos), Null, "throw")
    ELSE LET w1 == NewNode(Use(w, pos), addr, value, Null)
             w2 == SetNext(w1, pos, addr)
             w3 == [w2 EXCEPT !.size[self] = @ + 1]
         IN  Res(w3, NextNode(w3, pos), "none")

InsertAfter(w, self, pos, value, addr) ==
    IF pos = Null THEN Res(w, Null, "assert")
    ELSE LET node_after_added == NextNode(w, pos)
         IN  IF addr = NoMem THEN Res(Use(w, pos), Null, "throw")
             ELSE LET w1 == NewNode(Use(w, pos), addr, value, node_after_added)
                      w2 == SetNext(w1, pos, addr)
                      w3 == [w2 EXCEPT !.size[self] = @ + 1]
                  IN  Res(w3, NextNode(w3, pos), "none")

\* EraseAfter that returns pos instead of the successor of the removed node
EraseAfterReturnsPos(w, self, pos, junk) ==
    IF IsEmpty(w, self) THEN Res(w, Null, "assert")
    ELSE LET victim == NextNode(w, pos)
             node_after_deleted == NextNode(w, victim)
             w1 == Delete(Use(Use(w, pos), victim), victim)
             w2 == SetNext(w1, pos, node_after_deleted)
             w3 == [w2 EXCEPT !.size[self] = @ - 1]
         IN  Res(w3, pos, "none")

\* junk is what the read through a null pointer does when pos or its
\* successor is null: Trap, or the value it yields
EraseAfter(w, self, pos, junk) ==
    IF IsEmpty(w, self) THEN Res(w, Null, "assert")
    ELSE IF pos = Null \/ NextNode(w, pos) = Null
    THEN IF junk = Trap THEN Res(w, Null, "ub")
         ELSE LET w1 == IF pos = Null THEN w ELSE SetNext(w, pos, junk)
                  w2 == [w1 EXCEPT !.size[self] = @ - 1]
              IN  Res(w2, junk, "ub")
    ELSE LET victim == NextNode(w, pos)
             node_after_deleted == NextNode(w, victim)
             w1 == Delete(Use(Use(w, pos), victim), victim)
             w2 == SetNext(w1, pos, node_after_deleted)
             w3 == [w2 EXCEPT !.size[self] = @ - 1]
         IN  Res(w3, node_after_deleted, "none")

PopFront(w, self) ==
    IF IsEmpty(w, self) THEN Res(w, Null, "assert")
    ELSE LET node_to_del == w.head[self]
             w1 == [Use(w, node_to_del) EXCEPT
                        !.head[self] = NextNode(w, node_to_del)]
             w2 == [w1 EXCEPT !.size[self] = @ - 1]
             w3 == Delete(w2, node_to_del)
         IN  Res(w3, Null, "none")

RECURSIVE ClearLoop(_, _)
ClearLoop(w, self) ==
    IF w.head[self] = Null THEN w
    ELSE IF w.head[self] \notin DOMAIN w.heap THEN [w EXCEPT !.err = TRUE]
    ELSE LET node_to_del == w.head[self]
             w1 == [w EXCEPT !.head[self] = NextNode(w, node_to_del)]
         IN  ClearLoop(Delete(w1, node_to_del), self)

\* Clear that drops the chain without deleting its nodes
ClearLeak(w, self) == [w EXCEPT !.head[self] = Null, !.size[self] = 0]

Clear(w, self) == [ClearLoop(w, self) EXCEPT !.size[self] = 0]

\* ~SingleLinkedList
Destroy(w, self) == Clear(w, self)

\* swap that forgets the sizes
SwapHeadsOnly(w, self, other) ==
    [w EXCEPT !.head[self] = w.head[other], !.head[other] = w.head[self]]

swap(w, self, other) ==
    [w EXCEPT !.head[self] = w.head[other], !.head[other] = w.head[self],
              !.size[self] = w.size[other], !.size[other] = w.size[self]]

\* The range `for (auto value : from)` walks: an initializer_list (values) or
\* another container (list # 0).  Its iterator is an index or a node pointer.
InitRange(values) == [list |-> 0, values |-> values]

ListRange(l) == [list |-> l, values |-> <<>>]

RangeBegin(w, from) == IF from.list = 0 THEN 1 ELSE begin(w, from.list)

RangeEnd(from) == IF from.list = 0 THEN Len(from.values) + 1 ELSE end

RangeDeref(w, from, it) ==
    IF from.list = 0 THEN from.values[it] ELSE IterDeref(w, it).ret

RangeNext(w, from, it) ==
    IF from.list = 0 THEN it + 1 ELSE IterIncrement(w, it).ret

\* The loop without ++temp_it: every element is inserted at the front
RECURSIVE FillLoopNoAdvance(_, _, _, _, _)
FillLoopNoAdvance(w, temp_it, from, it, addrs) ==
    IF it = RangeEnd(from) THEN Res(w, Null, "none")
    ELSE LET value == RangeDeref(w, from, it)
             addr == IF addrs = <<>> THEN NoMem ELSE Head(addrs)
             r == InsertAfter(w, TempList, temp_it, value, addr)
         IN  IF r.exc # "none" THEN Res(r.w, Null, r.exc)
             ELSE FillLoopNoAdvance(r.w, temp_it, from,
                                    RangeNext(r.w, from, it),
                                    IF addrs = <<>> THEN addrs ELSE Tail(addrs))

\* The loop of FillingListInSeries.  addrs are the allocator's answers to the
\* successive `new Node`; when they run out the next `new` throws.
RECURSIVE FillLoop(_, _, _, _, _)
FillLoop(w, temp_it, from, it, addrs) ==
    IF it = RangeEnd(from) THEN Res(w, Null, "none")
    ELSE LET value == RangeDeref(w, from, it)
             addr == IF addrs = <<>> THEN NoMem ELSE Head(addrs)
             r == InsertAfter(w, TempList, temp_it, value, addr)
         IN  IF r.exc # "none" THEN Res(r.w, Null, r.exc)
             ELSE FillLoop(r.w, IterIncrement(r.w, temp_it).ret, from,
                           RangeNext(r.w, from, it),
                           IF addrs = <<>> THEN addrs ELSE Tail(addrs))

\* temp_list is a local: it is destroyed on the normal exit and on the
\* exceptional one.  With a throw, ret reports how many elements temp_list held
\* when the exception left the loop (C++ returns nothing then).
FillingListInSeries(w, self, from, addrs) ==
    IF ~IsEmpty(w, self) THEN Res(w, Null, "assert")
    ELSE LET r == FillLoop(w, before_begin(TempList), from,
                           RangeBegin(w, from), addrs)
         IN  IF r.exc # "none"
             THEN Res(Destroy(r.w, TempList), GetSize(r.w, TempList), r.exc)
             ELSE Res(Destroy(swap(r.w, self, TempList), TempList), Null, "none")

\* SingleLinkedList(std::initializer_list<Type> values)
InitListCtor(w, self, values, addrs) ==
    FillingListInSeries(w, self, InitRange(values), addrs)

\* A memberwise copy: the new container points at the nodes of the other one
CopyCtorShallow(w, self, other, addrs) ==
    Res([w EXCEPT !.head[self] = w.head[other], !.size[self] = w.size[other]],
        Null, "none")

\* SingleLinkedList(const SingleLinkedList& other)
CopyCtor(w, self, other, addrs) ==
    FillingListInSeries(w, self, ListRange(other), addrs)

\* operator= that clears *this and fills it in place
AssignClearFirst(w, self, rhs, addrs) ==
    IF self = rhs THEN Res(w, Null, "none")
    ELSE FillingListInSeries(Clear(w, self), self, ListRange(rhs), addrs)

\* operator=.  When tmp's constructor throws, tmp never existed.
OperatorAssign(w, self, rhs, addrs) ==
    IF self = rhs THEN Res(w, Null, "none")
    ELSE LET r == CopyCtor(w, Tmp, rhs, addrs)
         IN  IF r.exc # "none" THEN r
             ELSE Res(Destroy(swap(r.w, self, Tmp), Tmp), Null, "none")

----------------------------------------------------------------------------
\* Comparison operators

\* std::equal(first1, last1, first2, last2) on forward iterators
RECURSIVE StdEqual(_, _, _)
StdEqual(w, it1, it2) ==
    IF it1 = end \/ it2 = end THEN it1 = end /\ it2 = end
    ELSE IF IterDeref(w, it1).ret # IterDeref(w, it2).ret THEN FALSE
    ELSE StdEqual(w, IterIncrement(w, it1).ret, IterIncrement(w, it2).ret)

\* A comparison for which a prefix is not less than its extension
RECURSIVE LexCompareNoPrefix(_, _, _)
LexCompareNoPrefix(w, it1, it2) ==
    IF it1 = end \/ it2 = end THEN FALSE
    ELSE IF IterDeref(w, it1).ret < IterDeref(w, it2).ret THEN TRUE
    ELSE IF IterDeref(w, it2).ret < IterDeref(w, it1).ret THEN FALSE
    ELSE LexCompareNoPrefix(w, IterIncrement(w, it1).ret,
                            IterIncrement(w, it2).ret)

\* std::lexicographical_compare(first1, last1, first2, last2)
RECURSIVE StdLexicographicalCompare(_, _, _)
StdLexicographicalCompare(w, it1, it2) ==
    IF it1 = end \/ it2 = end THEN it1 = end /\ it2 # end
    ELSE IF IterDeref(w, it1).ret < IterDeref(w, it2).ret THEN TRUE
    ELSE IF IterDeref(w, it2).ret < IterDeref(w, it1).ret THEN FALSE
    ELSE StdLexicographicalCompare(w, IterIncrement(w, it1).ret,
                                   IterIncrement(w, it2).ret)

OpEq(w, lhs, rhs) == StdEqual(w, begin(w, lhs), begin(w, rhs))

OpNe(w, lhs, rhs) == ~OpEq(w, lhs, rhs)

OpLt(w, lhs, rhs) == StdLexicographicalCompare(w, begin(w, lhs), begin(w, rhs))

OpLe(w, lhs, rhs) == ~OpLt(w, rhs, lhs)

OpGt(w, lhs, rhs) == OpLt(w, rhs, lhs)

OpGe(w, lhs, rhs) == ~OpLt(w, rhs, lhs)

\* The operators that answer true for (lhs, rhs)
CompareAll(w, lhs, rhs) ==
    {o \in {"==", "!=", "<", "<=", ">", ">="} :
        \/ o = "==" /\ OpEq(w, lhs, rhs)
        \/ o = "!=" /\ OpNe(w, lhs, rhs)
        \/ o = "<" /\ OpLt(w, lhs, rhs)
        \/ o = "<=" /\ OpLe(w, lhs, rhs)
        \/ o = ">" /\ OpGt(w, lhs, rhs)
        \/ o = ">=" /\ OpGe(w, lhs, rhs)}

----------------------------------------------------------------------------
\* Observations

\* The nodes met from `it` by operator++ until end (at most fuel of them)
RECURSIVE Chain(_, _, _)
Chain(w, it, fuel) ==
    IF it = Null \/ fuel = 0 \/ it \notin DOMAIN w.heap THEN <<>>
    ELSE <<it>> \o Chain(w, NextNode(w, it), fuel - 1)

ChainOf(w, l) == Chain(w, begin(w, l), MaxNodes + 1)

NodesOf(w, l) == {ChainOf(w, l)[i] : i \in DOMAIN ChainOf(w, l)}

\* What a traversal from begin() to end() reads
Contents(w, l) == [i \in DOMAIN ChainOf(w, l) |-> w.heap[ChainOf(w, l)[i]].value]

\* The positions of container l that are not end(): before_begin() and its nodes
Positions(w, l) == {before_begin(l)} \cup NodesOf(w, l)

----------------------------------------------------------------------------
\* The client program: any sequence of calls on its containers

\* The answers the allocator can give to n successive `new Node`: distinct free
\* addresses, and a throw after them when they are fewer than n.
AllocSeqs(w, n) ==
    {s \in UNION {[1..k -> Free(w)] : k \in 0..n} :
        \A i, j \in DOMAIN s : i # j => s[i] # s[j]}

AllocChoices(w) == Free(w) \cup {NoMem}

InitLists == UNION {[1..n -> Values] : n \in 0..MaxNodes}

\* `last`: the call (op on container self, with the container other, the position
\* pos and the value or values arg it was given), what it returned (ret, and cmp:
\* the comparison operators that answered true), how it ended (exc: "none", a
\* "throw", an "assert" that aborted, or "ub": undefined behaviour) and whether
\* the caller honored its preconditions.
NoCall ==
    [op |-> "none", self |-> 0, other |-> 0, pos |-> Null, arg |-> 0,
     ret |-> Null, exc |-> "none", cmp |-> {}, honored |-> TRUE]

\* The client is between two calls: `last` is empty.  A call fills it, and the
\* client takes the result (DoReturn) before its next call.
Idle == last.op = "none"

\* The call's outcome r becomes the state, and `last` describes the call.
Commit(r, op, self, other, pos, arg, honored) ==
    \E x \in {r} :
        /\ heap' = x.w.heap
        /\ head' = x.w.head
        /\ size' = x.w.size
        /\ err' = x.w.err
        /\ last' = [op |-> op, self |-> self, other |-> other, pos |-> pos,
                    arg |-> arg, ret |-> x.ret, exc |-> x.exc, cmp |-> {},
                    honored |-> honored]

Init ==
    /\ heap = <<>>
    /\ head = [l \in Slots |-> Null]
    /\ size = [l \in Slots |-> 0]
    /\ alive = {}
    /\ err = FALSE
    /\ last = NoCall

DoDefaultCtor(l) ==
    /\ Idle /\ l \notin alive
    /\ alive' = alive \cup {l}
    /\ Commit(Res(W, Null, "none"), "DefaultCtor", l, 0, Null, 0, TRUE)

DoInitListCtor(l, values, addrs) ==
    /\ Idle /\ l \notin alive
    /\ Commit(InitListCtor(W, l, values, addrs), "InitListCtor", l, 0, Null,
              values, TRUE)
    /\ alive' = IF last'.exc = "none" THEN alive \cup {l} ELSE alive

DoCopyCtor(l, other, addrs) ==
    /\ Idle /\ l \notin alive /\ other \in alive
    /\ Commit(CopyCtor(W, l, other, addrs), "CopyCtor", l, other, Null, 0,
              TRUE)
    /\ alive' = IF last'.exc = "none" THEN alive \cup {l} ELSE alive

DoDestroy(l) ==
    /\ Idle /\ l \in alive
    /\ alive' = alive \ {l}
    /\ Commit(Res(Destroy(W, l), Null, "none"), "Destroy", l, 0, Null, 0,
              TRUE)

DoPushFront(l, value, addr) ==
    /\ Idle /\ l \in alive
    /\ Commit(PushFront(W, l, value, addr), "PushFront", l, 0, Null, value,
              TRUE)
    /\ UNCHANGED alive

DoInsertAfter(l, pos, value, addr) ==
    /\ Idle /\ l \in alive
    /\ pos \in Positions(W, l)
    /\ Commit(InsertAfter(W, l, pos, value, addr), "InsertAfter", l, 0, pos,
              value, TRUE)
    /\ UNCHANGED alive

DoEraseAfter(l, pos) ==
    /\ Idle /\ l \in alive
    /\ pos \in Positions(W, l) /\ NextNode(W, pos) # Null
    /\ Commit(EraseAfter(W, l, pos, Trap), "EraseAfter", l, 0, pos, 0,
              TRUE)
    /\ UNCHANGED alive

DoPopFront(l) ==
    /\ Idle /\ l \in alive
    /\ ~IsEmpty(W, l)
    /\ Commit(PopFront(W, l), "PopFront", l, 0, Null, 0, TRUE)
    /\ UNCHANGED alive

DoClear(l) ==
    /\ Idle /\ l \in alive
    /\ Commit(Res(Clear(W, l), Null, "none"), "Clear", l, 0, Null, 0, TRUE)
    /\ UNCHANGED alive

DoAssign(l, rhs, addrs) ==
    /\ Idle /\ l \in alive /\ rhs \in alive
    /\ Commit(OperatorAssign(W, l, rhs, addrs), "Assign", l, rhs, Null, 0,
              TRUE)
    /\ UNCHANGED alive

DoSwap(l, other) ==
    /\ Idle /\ l \in alive /\ other \in alive
    /\ Commit(Res(swap(W, l, other), Null, "none"), "Swap", l, other, Null,
              0, TRUE)
    /\ UNCHANGED alive

DoCompare(lhs, rhs) ==
    /\ Idle /\ lhs \in alive /\ rhs \in alive
    /\ last' = [op |-> "Compare", self |-> lhs, other |-> rhs, pos |-> Null,
                arg |-> 0, ret |-> Null, exc |-> "none",
                cmp |-> CompareAll(W, lhs, rhs), honored |-> TRUE]
    /\ UNCHANGED <<heap, head, size, alive, err>>

\* ++it on an iterator that is not end()
DoIncrement(l, it) ==
    /\ Idle /\ l \in alive
    /\ it \in Positions(W, l)
    /\ Commit(IterIncrement(W, it), "Increment", l, 0, it, 0, TRUE)
    /\ UNCHANGED alive

\* *it on an iterator that refers to an element
DoDeref(l, it) ==
    /\ Idle /\ l \in alive
    /\ it \in NodesOf(W, l)
    /\ Commit(IterDeref(W, it), "Deref", l, 0, it, 0, TRUE)
    /\ UNCHANGED alive

\* The client takes the result of the call and goes on, unless an assert aborted
\* the program or its behaviour became undefined.
DoReturn ==
    /\ last.op # "none"
    /\ last.honored /\ last.exc \in {"none", "throw"}
    /\ last' = NoCall
    /\ UNCHANGED <<heap, head, size, alive, err>>

\* The calls of the client, each with its preconditions honored
DefaultCtorCall ==
    Idle /\ \E l \in Lists \ alive : DoDefaultCtor(l)

InitListCtorCall ==
    Idle /\ \E l \in Lists \ alive : \E values \in InitLists :
        \E addrs \in AllocSeqs(W, Len(values)) : DoInitListCtor(l, values, addrs)

CopyCtorCall ==
    Idle /\ \E l \in Lists \ alive : \E other \in alive :
        \E addrs \in AllocSeqs(W, size[other]) : DoCopyCtor(l, other, addrs)

DestroyCall ==
    Idle /\ \E l \in alive : DoDestroy(l)

PushFrontCall ==
    Idle /\ \E l \in alive : \E value \in Values, addr \in AllocChoices(W) :
        DoPushFront(l, value, addr)

InsertAfterCall ==
    Idle /\ \E l \in alive : \E pos \in Positions(W, l) :
        \E value \in Values, addr \in AllocChoices(W) :
            DoInsertAfter(l, pos, value, addr)

EraseAfterCall ==
    Idle /\ \E l \in alive : \E pos \in Positions(W, l) : DoEraseAfter(l, pos)

PopFrontCall ==
    Idle /\ \E l \in alive : DoPopFront(l)

ClearCall ==
    Idle /\ \E l \in alive : DoClear(l)

AssignCall ==
    Idle /\ \E l \in alive : \E rhs \in alive :
        \E addrs \in AllocSeqs(W, size[rhs]) : DoAssign(l, rhs, addrs)

SwapCall ==
    Idle /\ \E l \in alive : \E other \in alive : DoSwap(l, other)

CompareCall ==
    Idle /\ \E lhs \in alive : \E rhs \in alive : DoCompare(lhs, rhs)

IncrementCall ==
    Idle /\ \E l \in alive : \E it \in Positions(W, l) : DoIncrement(l, it)

DerefCall ==
    Idle /\ \E l \in alive : \E it \in NodesOf(W, l) : DoDeref(l, it)

Next ==
    \/ DefaultCtorCall
    \/ InitListCtorCall
    \/ CopyCtorCall
    \/ DestroyCall
    \/ PushFrontCall
    \/ InsertAfterCall
    \/ EraseAfterCall
    \/ PopFrontCall
    \/ ClearCall
    \/ AssignCall
    \/ SwapCall
    \/ CompareCall
    \/ IncrementCall
    \/ DerefCall
    \/ DoReturn

Spec == Init /\ [][Next]_vars

----------------------------------------------------------------------------
\* The same client, which may also break the contract of a call.  The model
\* follows it up to the first such call.

\* The positions a client can hold: end(), and the before_begin() and the nodes
\* of its containers
ClientPtrs == {Null} \cup {before_begin(l) : l \in alive} \cup DOMAIN heap

\* PopFront() on an empty container
PopFrontEmptyCall ==
    Idle /\ \E l \in alive :
        /\ IsEmpty(W, l)
        /\ Commit(PopFront(W, l), "PopFront", l, 0, Null, 0, FALSE)
        /\ UNCHANGED alive

\* EraseAfter(pos) where pos is end(), or belongs to another container, or has
\* no successor
EraseAfterBadCall ==
    Idle /\ \E l \in alive : \E pos \in ClientPtrs :
        \E junk \in Nodes \cup {Null, Trap} :
        /\ ~(pos \in Positions(W, l) /\ NextNode(W, pos) # Null)
        /\ Commit(EraseAfter(W, l, pos, junk), "EraseAfter", l, 0, pos, 0,
                  FALSE)
        /\ UNCHANGED alive

\* InsertAfter(pos, value) where pos is end() or belongs to another container,
\* while the allocator has memory
InsertAfterBadCall ==
    Idle /\ \E l \in alive : \E pos \in ClientPtrs \ Positions(W, l) :
        \E value \in Values, addr \in Free(W) :
            /\ Commit(InsertAfter(W, l, pos, value, addr), "InsertAfter", l, 0,
                      pos, value, FALSE)
            /\ UNCHANGED alive

\* ++it on end()
IncrementEndCall ==
    Idle /\ \E l \in alive :
        /\ Commit(IterIncrement(W, end), "Increment", l, 0, end, 0, FALSE)
        /\ UNCHANGED alive

\* *it on end()
DerefEndCall ==
    Idle /\ \E l \in alive :
        /\ Commit(IterDeref(W, end), "Deref", l, 0, end, 0, FALSE)
        /\ UNCHANGED alive

NextChecked ==
    \/ Next
    \/ PopFrontEmptyCall
    \/ EraseAfterBadCall
    \/ InsertAfterBadCall
    \/ IncrementEndCall
    \/ DerefEndCall

SpecChecked == Init /\ [][NextChecked]_vars

----------------------------------------------------------------------------
\* Properties

Ok(l) == l.honored /\ l.exc = "none"

\* A walk from `it` by next-links arrives at nullptr through live nodes only
RECURSIVE EndsInNull(_, _, _)
EndsInNull(w, it, fuel) ==
    IF it = Null THEN TRUE
    ELSE IF fuel = 0 \/ it \notin DOMAIN w.heap THEN FALSE
    ELSE EndsInNull(w, NextNode(w, it), fuel - 1)

NoRepeat(s) == \A i, j \in DOMAIN s : i # j => s[i] # s[j]

\* C1: in every container, GetSize() is the number of nodes reachable from the
\* sentinel, the chain of next-links has no cycle and ends in nullptr, and
\* begin() == end() exactly when GetSize() == 0, which is when IsEmpty().
C1_SizeIsChainLength ==
    \A l \in Slots :
        /\ GetSize(W, l) = Len(ChainOf(W, l))
        /\ GetSize(W, l) = Cardinality(NodesOf(W, l))
        /\ NoRepeat(ChainOf(W, l))
        /\ EndsInNull(W, begin(W, l), MaxNodes)
        /\ (begin(W, l) = end) <=> (GetSize(W, l) = 0)
        /\ IsEmpty(W, l) <=> (GetSize(W, l) = 0)

\* Two containers that hold elements have just been swapped.
C1_Witness ==
    /\ last.op = "Swap" /\ last.self # last.other
    /\ GetSize(W, last.self) = 2 /\ GetSize(W, last.other) = 1
    /\ Len(ChainOf(W, last.self)) = 2

\* C2: every derived comparison operator agrees with its definition by == and
\* <: A != B iff not (A == B), A > B iff B < A, A <= B iff not (B < A),
\* A >= B iff not (A < B).
C2_DerivedOperators ==
    last.op = "Compare" =>
        /\ ("!=" \in last.cmp) <=> ~("==" \in last.cmp)
        /\ (">" \in last.cmp) <=> OpLt(W, last.other, last.self)
        /\ ("<=" \in last.cmp) <=> ~OpLt(W, last.other, last.self)
        /\ (">=" \in last.cmp) <=> ~("<" \in last.cmp)

\* C3: with asserts compiled in, every call that breaks a contract is stopped by
\* an assert.
C3_ViolationsAsserted == ~last.honored => last.exc = "assert"

\* C4: when `new Node` throws during InsertAfter, a copy construction or a copy
\* assignment, nothing has changed: every container has the links, the elements
\* and the size it had before the call and no node stays allocated, however
\* many elements had been copied into the temporary list.
C4_StrongGuarantee ==
    [][(last'.op \in {"InsertAfter", "CopyCtor", "Assign"} /\ last'.exc = "throw")
         => /\ heap' = heap /\ head' = head /\ size' = size
            /\ alive' = alive /\ err' = err
            /\ \A l \in Lists : Contents(W', l) = Contents(W, l)]_vars

\* A copy assignment of two elements has thrown after it had copied one: the
\* source still holds its elements and the node of the copy was freed.
C4_Witness ==
    /\ last.op = "Assign" /\ last.exc = "throw" /\ last.ret = 1
    /\ Contents(W, last.other) = <<1, 2>>
    /\ last.self \in alive /\ Contents(W, last.self) = <<>>
    /\ Cardinality(DOMAIN heap) = 2

\* Every allocated node is in the chain of exactly one container and has
\* exactly one predecessor, every link leads to nullptr or to an allocated
\* node, and no freed node was read, written or deleted.
OwnershipOk(w) ==
    LET owned == [l \in Slots |-> NodesOf(w, l)]
        preds == {0 - l : l \in Slots} \cup DOMAIN w.heap
    IN  /\ ~w.err
        /\ \A n \in DOMAIN w.heap :
            /\ Cardinality({l \in Slots : n \in owned[l]}) = 1
            /\ Cardinality({p \in preds : NextNode(w, p) = n}) = 1
            /\ w.heap[n].next_node \in DOMAIN w.heap \cup {Null}
        /\ \A l \in Slots : EndsInNull(w, begin(w, l), MaxNodes)

\* C5: at the start and after every call that honors the preconditions, every
\* allocated node is reachable from exactly one sentinel and has exactly one
\* predecessor, no node was freed twice, no freed node is reachable, and
\* Clear() and the destructor leave none of the container's nodes allocated.
\* (A step that changes neither the heap nor a sentinel nor err keeps it.)
C5_Ownership ==
    /\ OwnershipOk(W)
    /\ [][/\ (heap' # heap \/ head' # head \/ err' # err) => OwnershipOk(W')
           /\ (last'.op \in {"Clear", "Destroy"}
                => /\ NodesOf(W, last'.self) \cap DOMAIN heap' = {}
                   /\ NodesOf(W', last'.self) = {}
                   /\ \A l \in Lists \ {last'.self} :
                        NodesOf(W', l) = NodesOf(W, l))]_vars

\* A container of two nodes was cleared while the other one keeps its node.
C5_Witness ==
    /\ last.op = "Clear"
    /\ Cardinality(DOMAIN heap) = 1
    /\ \E l \in alive : GetSize(W, l) = 1 /\ l # last.self
    /\ head[last.self] = Null

SameElements(s, t) ==
    Len(s) = Len(t) /\ \A i \in 1..Len(s) : s[i] = t[i]

\* s has the smaller element at the first position where they differ, or s is a
\* strict prefix of t
LexLess(s, t) ==
    \/ \E k \in 1..Len(s) :
        /\ k <= Len(t)
        /\ \A i \in 1..(k - 1) : s[i] = t[i]
        /\ s[k] < t[k]
    \/ /\ Len(s) < Len(t)
       /\ \A i \in 1..Len(s) : s[i] = t[i]

\* C7: A == B iff A and B have the same length and equal elements at every
\* position; A < B iff A has the smaller element at the first position where
\* they differ, or A is a strict prefix of B.
C7_EqualAndLess ==
    last.op = "Compare" =>
        /\ ("==" \in last.cmp)
            <=> SameElements(Contents(W, last.self), Contents(W, last.other))
        /\ ("<" \in last.cmp)
            <=> LexLess(Contents(W, last.self), Contents(W, last.other))
        /\ (last.self = last.other => "<" \notin last.cmp)
        /\ (IsEmpty(W, last.self) /\ ~IsEmpty(W, last.other))
            => "<" \in last.cmp

\* A strict prefix was compared with its extension.
C7_Witness ==
    /\ last.op = "Compare" /\ "<" \in last.cmp /\ "==" \notin last.cmp
    /\ Contents(W, last.self) = <<1>>
    /\ Contents(W, last.other) = <<1, 2>>

\* s without its i-th element
RemoveAt(s, i) == [j \in 1..(Len(s) - 1) |-> IF j < i THEN s[j] ELSE s[j + 1]]

\* s with x as its i-th element
InsertAt(s, i, x) ==
    [j \in 1..(Len(s) + 1) |-> IF j < i THEN s[j] ELSE IF j = i THEN x ELSE s[j - 1]]

\* How many nodes of container l come before the successor of pos
IndexAfter(w, l, pos) ==
    IF pos = before_begin(l) THEN 1
    ELSE 1 + (CHOOSE i \in DOMAIN ChainOf(w, l) : ChainOf(w, l)[i] = pos)

\* C8: EraseAfter(pos), pos having a successor, removes exactly the node after
\* pos, keeps the other elements in their order, decrements GetSize() and
\* returns the position of the removed node's successor, end() when there is
\* none; on {1,2,3}, EraseAfter(begin()) gives {1,3}, size 2, and the position
\* returned reads 3.
C8_EraseAfter ==
    [][(last'.op = "EraseAfter" /\ last'.honored)
         => LET l == last'.self
                pos == last'.pos
                victim == NextNode(W, pos)
                k == IndexAfter(W, l, pos)
            IN  /\ last'.exc = "none"
                /\ ChainOf(W', l) = RemoveAt(ChainOf(W, l), k)
                /\ Contents(W', l) = RemoveAt(Contents(W, l), k)
                /\ GetSize(W', l) = GetSize(W, l) - 1
                /\ last'.ret = NextNode(W, victim)
                /\ NextNode(W', pos) = last'.ret
                /\ (k = Len(ChainOf(W, l))) <=> (last'.ret = end)
                /\ victim \notin DOMAIN heap'
                /\ \A n \in DOMAIN heap' : heap'[n].value = heap[n].value
                /\ (Contents(W, l) = <<1, 2, 3>> /\ pos = begin(W, l))
                     => /\ Contents(W', l) = <<1, 3>>
                        /\ GetSize(W', l) = 2
                        /\ IterDeref(W', last'.ret).ret = 3]_vars

\* EraseAfter(begin()) has removed the 2 of {1,2,3}.
C8_Witness ==
    /\ last.op = "EraseAfter" /\ Ok(last)
    /\ last.pos = begin(W, last.self)
    /\ Contents(W, last.self) = <<1, 3>>
    /\ GetSize(W, last.self) = 2
    /\ last.ret # end /\ IterDeref(W, last.ret).ret = 3

\* C9: InsertAfter(pos, v), pos not end(), puts one new node holding v right
\* after pos and before the former successor of pos, keeps the other elements
\* in their order, increments GetSize() and returns the position of the new
\* node; InsertAfter(before_begin(), v) and PushFront(v) give the same
\* container.
C9_InsertAfter ==
    [][/\ (last'.op = "InsertAfter" /\ Ok(last'))
            => LET l == last'.self
                   pos == last'.pos
                   k == IndexAfter(W, l, pos)
               IN  /\ last'.ret \notin DOMAIN heap
                   /\ last'.ret \in DOMAIN heap'
                   /\ heap'[last'.ret].value = last'.arg
                   /\ NextNode(W', pos) = last'.ret
                   /\ NextNode(W', last'.ret) = NextNode(W, pos)
                   /\ ChainOf(W', l) = InsertAt(ChainOf(W, l), k, last'.ret)
                   /\ Contents(W', l) = InsertAt(Contents(W, l), k, last'.arg)
                   /\ GetSize(W', l) = GetSize(W, l) + 1
                   /\ \A n \in DOMAIN heap : heap'[n].value = heap[n].value
       /\ (last'.op = "PushFront")
            => LET l == last'.self
                   a == IF last'.exc = "throw" THEN NoMem ELSE begin(W', l)
                   i == InsertAfter(W, l, before_begin(l), last'.arg, a)
               IN  /\ i.w = W'
                   /\ i.exc = last'.exc
                   /\ Contents(i.w, l) = Contents(W', l)
                   /\ GetSize(i.w, l) = GetSize(W', l)
                   /\ Ok(last') => Contents(W', l) = <<last'.arg>> \o Contents(W, l)
       /\ (last'.op = "InsertAfter" /\ last'.honored
           /\ last'.pos = before_begin(last'.self))
            => LET l == last'.self
                   a == IF last'.exc = "throw" THEN NoMem ELSE begin(W', l)
                   p == PushFront(W, l, last'.arg, a)
               IN  /\ p.w = W'
                   /\ p.exc = last'.exc]_vars

\* A node was inserted between two nodes.
C9_Witness ==
    /\ last.op = "InsertAfter" /\ Ok(last)
    /\ last.pos \in DOMAIN heap
    /\ NextNode(W, last.ret) # Null
    /\ Contents(W, last.self) = <<1, 3, 2>>

\* The calls that change the container they are called on
Mutators ==
    {"PushFront", "InsertAfter", "EraseAfter", "PopFront", "Clear", "Assign",
     "Destroy", "DefaultCtor", "InitListCtor", "CopyCtor"}

\* C10: a container that was copy constructed or copy assigned shares no node
\* with its source, a call that changes one container leaves the elements and
\* the size of every other one as they were, and A = A leaves A as it was.
C10_Independence ==
    [][/\ (last'.op \in {"CopyCtor", "Assign"} /\ Ok(last')
           /\ last'.self # last'.other)
            => /\ NodesOf(W', last'.self) \cap NodesOf(W', last'.other) = {}
               /\ Contents(W', last'.other) = Contents(W, last'.other)
               /\ ChainOf(W', last'.other) = ChainOf(W, last'.other)
       /\ last'.op \in Mutators
            => \A m \in Lists \ {last'.self} :
                 /\ Contents(W', m) = Contents(W, m)
                 /\ GetSize(W', m) = GetSize(W, m)
                 /\ ChainOf(W', m) = ChainOf(W, m)
       /\ (last'.op = "Assign" /\ last'.self = last'.other)
            => /\ last'.exc = "none"
               /\ Contents(W', last'.self) = Contents(W, last'.self)
               /\ GetSize(W', last'.self) = GetSize(W, last'.self)]_vars

\* A container was copy assigned to another one.
C10_Witness ==
    /\ last.op = "Assign" /\ Ok(last) /\ last.self # last.other
    /\ Contents(W, last.self) = <<2>>
    /\ Contents(W, last.other) = <<2>>
    /\ NodesOf(W, last.self) \cap NodesOf(W, last.other) = {}

====
